---- MODULE Spec2Model ----
(***************************************************************************)
(* Batch analysis engine of the C# code reviewer                           *)
(* (app/core/batch_analyzer.py, with the stream contract of                *)
(* app/core/api_client.py).                                                *)
(*                                                                         *)
(* Text is modelled as a sequence of text pieces, concatenation of         *)
(* f-strings as \o, and the operator `in` on strings as a search for a     *)
(* contiguous sub-sequence.  The two syllables of the Korean word for      *)
(* "skip" that the tally searches for are the pieces "seu" and "kip";      *)
(* every other piece is a run of characters that contains neither.         *)
(***************************************************************************)
EXTENDS Integers, Sequences, FiniteSets, TLC

(* ------------------------------ bounds --------------------------------- *)
MaxFiles == 2
MaxChunks == 1

(* ---------------------------- program constants ------------------------ *)
MAX_RETRIES == 3

(* ------------------------------- text ---------------------------------- *)
SkipWord == <<"seu", "kip">>

RECURSIVE ContainsFrom(_, _, _)
ContainsFrom(s, sub, k) ==
    IF k + Len(sub) - 1 > Len(s) THEN FALSE
    ELSE IF SubSeq(s, k, k + Len(sub) - 1) = sub THEN TRUE
    ELSE ContainsFrom(s, sub, k + 1)

\* Python: sub in s
Contains(s, sub) == ContainsFrom(s, sub, 1)

IsSpace(c) == c = " "

RECURSIVE LStrip(_)
LStrip(s) == IF s # <<>> /\ IsSpace(Head(s)) THEN LStrip(Tail(s)) ELSE s

RECURSIVE RStrip(_)
RStrip(s) ==
    IF s # <<>> /\ IsSpace(s[Len(s)]) THEN RStrip(SubSeq(s, 1, Len(s) - 1)) ELSE s

\* Python: s.strip()
Strip(s) == RStrip(LStrip(s))

\* Python: Path(file_path).name ; a path is the sequence of its components
PathName(p) == IF p = <<>> THEN "" ELSE p[Len(p)]

(* ------------------------- environment domains ------------------------- *)
\* the argument lists a run is started with: lists of distinct files
FileLists ==
    { SubSeq(<<<<"src", "A.cs">>, <<"src", "B.cs">>, <<"lib", "C.cs">>, <<"lib", "D.cs">>>>, 1, n)
        : n \in 0..MaxFiles }

\* what f.read() can return
Contents == { <<>>, <<" ">>, <<" ", "class X", " ">> }

\* what str(e) of a raised error can be: nothing, or a text that happens to
\* hold the skip word
ErrTexts == { <<>>, <<"timeout, ">> \o SkipWord }

\* the text chunks a stream can yield
Chunks == { "code" }

\* the exception classes of api_client.py and the built-in ones it meets
ParentClass(cls) ==
    CASE cls = "APIConnectionError" -> "APIClientError"
      [] cls = "ModelNotFoundError" -> "APIClientError"
      [] cls = "APIKeyMissingError" -> "APIClientError"
      [] cls = "PromptTooLongError" -> "APIClientError"
      [] cls = "APIClientError" -> "Exception"
      [] cls = "Exception" -> "BaseException"
      [] cls = "BaseException" -> "object"
      [] OTHER -> "Exception"

RECURSIVE IsSubclass(_, _)
\* Python: issubclass(cls, base), which decides what an except clause catches
IsSubclass(cls, base) ==
    IF cls = base THEN TRUE
    ELSE IF cls = "object" THEN FALSE
    ELSE IsSubclass(ParentClass(cls), base)

\* mutant: the retry loop has no `except Exception` clause
CaughtInRetryLoop_ClientOnly(cls) == IsSubclass(cls, "APIClientError")

\* except APIClientError ... except Exception, of the retry loop
CaughtInRetryLoop(cls) ==
    IsSubclass(cls, "APIClientError") \/ IsSubclass(cls, "Exception")

NoError == [cls |-> "None", text |-> <<>>]
ClientError(t) == [cls |-> "APIClientError", text |-> t]
OtherError(t) == [cls |-> "Exception", text |-> t]

(* ------------------------------ messages ------------------------------- *)
EmptyFileMsg == <<"bin pail (">> \o SkipWord \o <<")">>
\* mutant: the message of the decode error lacks the skip tag
DecodeErrorMsg_NoTag == <<"UTF-8 inkoding oryu">>

DecodeErrorMsg == <<"UTF-8 inkoding oryu (">> \o SkipWord \o <<")">>
ReadFailedMsg(t) == <<"pail ilgi silpae: ">> \o t \o <<" (">> \o SkipWord \o <<")">>
ExhaustedMsg(t) == <<"LLM bunseok silpae (", "3", "hoe jaesido): ">> \o t

(* ------------------------------ results -------------------------------- *)
FileAnalysisResult(path, ok, orig, improved, report, msg, retries) ==
    [file_path |-> path, file_name |-> PathName(path), success |-> ok,
     original_code |-> orig, improved_code |-> improved,
     report_markdown |-> report, error_message |-> msg, retry_count |-> retries]

\* the three early returns of the load step
LoadFailureResult(path, msg) ==
    FileAnalysisResult(path, FALSE, <<>>, <<>>, <<>>, msg, 0)

\* mutant: retry_count=attempt + 1
SuccessResult_AttemptNumber(path, orig, improved, report, retries) ==
    FileAnalysisResult(path, TRUE, orig, improved, report, <<>>, retries + 1)

\* the return inside the retry loop
SuccessResult(path, orig, improved, report, retries) ==
    FileAnalysisResult(path, TRUE, orig, improved, report, <<>>, retries)

\* mutant: error_message=str(last_error)
ExhaustedResult_BareError(path, orig, err, retries) ==
    FileAnalysisResult(path, FALSE, orig, <<>>, <<>>, err.text, retries)

\* the return after the retry loop
ExhaustedResult(path, orig, err, retries) ==
    FileAnalysisResult(path, FALSE, orig, <<>>, <<>>, ExhaustedMsg(err.text), retries)

\* report_generator.generate_report: an opaque, deterministic text
GenerateReport(orig, improved) == <<"# report">> \o improved

\* result.error_message and "seu-kip" in result.error_message
IsSkipMessage(msg) == msg # <<>> /\ Contains(msg, SkipWord)

\* the tally: if result.success: success_count += 1
SuccessInc(r) == IF r.success THEN 1 ELSE 0

\* the tally: elif <skip message>: skipped_count += 1
SkippedInc(r) == IF ~r.success /\ IsSkipMessage(r.error_message) THEN 1 ELSE 0

\* mutant: a separate `if not result.success` instead of the else branch
FailureInc_NotElse(r) == IF ~r.success THEN 1 ELSE 0

\* the tally: else: failure_count += 1
FailureInc(r) == IF ~r.success /\ ~IsSkipMessage(r.error_message) THEN 1 ELSE 0

\* mutant: total_files=len(results)
TotalFiles_OfResults(paths, res) == Len(res)

\* total_files=len(file_paths)
TotalFiles(paths, res) == Len(paths)

\* mutant: the list is walked from its end
ItemAt_Reversed(paths, idx) == paths[Len(paths) - idx]

\* for i, file_path in enumerate(file_paths): the item of loop index idx
ItemAt(paths, idx) == paths[idx + 1]

\* mutant: the callback is given the 1-based position
ProgressArgs_OneBased(idx, paths) ==
    <<idx + 1, Len(paths), PathName(ItemAt(paths, idx))>>

\* progress_callback(i, len(file_paths), file_name)
ProgressArgs(idx, paths) == <<idx, Len(paths), PathName(ItemAt(paths, idx))>>

\* mutant: the loop never moves on to the next item
NextIndex_Stay(idx) == idx

\* enumerate(file_paths): the index of the next iteration
NextIndex(idx) == idx + 1

\* mutant: for attempt in range(MAX_RETRIES - 1)
HasAttempt_OneLess(a) == a < MAX_RETRIES - 1

\* mutant: for attempt in range(MAX_RETRIES + 1)
HasAttempt_Inclusive(a) == a <= MAX_RETRIES

\* for attempt in range(MAX_RETRIES)
HasAttempt(a) == a < MAX_RETRIES

\* mutant: time.sleep(1) after every failed attempt
SleepsAfter_Always(a) == 1

\* if attempt < self.MAX_RETRIES - 1: time.sleep(1)
SleepsAfter(a) == IF a < MAX_RETRIES - 1 THEN 1 ELSE 0

\* mutant: the text of the previous attempt is kept and appended to
FreshBuffer_Keep(improved) == improved

\* improved_code = "" at the start of every attempt's call
FreshBuffer(improved) == <<>>

\* mutant: the callback is tested for presence but not called
ShouldBreak_IfSupplied(has_cb, cb_value) == has_cb

\* mutant: the callback is never asked
ShouldBreak_Never(has_cb, cb_value) == FALSE

\* mutant: the callback's answer is negated
ShouldBreak_Negated(has_cb, cb_value) == has_cb /\ ~cb_value

\* if is_cancelled_callback and is_cancelled_callback(): break
ShouldBreak(has_cb, cb_value) == has_cb /\ cb_value

(* ------------------------------- state --------------------------------- *)
VARIABLES
    pc,                     \* position in analyze_files / _analyze_single_file
    file_paths,             \* argument of analyze_files
    progress_callback,      \* TRUE iff a progress callback was supplied
    is_cancelled_callback,  \* TRUE iff a cancellation callback was supplied
    cancel_requested,       \* what is_cancelled_callback() returns now
    i,                      \* loop index of analyze_files (0-based)
    results, success_count, failure_count, skipped_count,
    summary,                \* the returned BatchAnalysisResult, once returned
    original_code, attempt, retry_count, last_error, improved_code,
    result,                 \* value returned by _analyze_single_file
    chunks_read,            \* chunks yielded so far by the open stream
    \* history (observations of a stub environment)
    progress_calls,         \* arguments of every progress callback call
    cancel_log,             \* what every is_cancelled_callback() call returned
    cancel_at,              \* where the run was when cancellation was requested
    load_log,               \* the loop index of every open() call, in order
    client_items,           \* the loop indexes analyze_code was called for
    outcomes,               \* per result: how its item's processing ended
    load_calls,             \* current item: number of open() calls
    prompt_calls,           \* current item: number of build_review_prompt calls
    client_calls,           \* current item: number of analyze_code calls
    report_calls,           \* current item: number of generate_report calls
    attempt_log,            \* current item: outcome of every attempt so far
    sleeps,                 \* current item: number of time.sleep(1) calls
    discarded               \* current item: a failed attempt had received chunks

runVars == <<file_paths, progress_callback, is_cancelled_callback>>
tallyVars == <<results, success_count, failure_count, skipped_count>>
localVars == <<original_code, attempt, retry_count, last_error, improved_code,
               chunks_read>>
runHist == <<progress_calls, cancel_log, load_log, client_items, outcomes>>
itemHist == <<load_calls, prompt_calls, client_calls, report_calls,
              attempt_log, sleeps, discarded>>

\* state of the other components: each specification below moves its own
\* variables and leaves the rest alone
VARIABLES
    twin_input,             \* two runs compared: items, environment, callbacks
    twin,                   \* two runs compared: frame of the current run
    twin_first,             \* two runs compared: what the first run returned
    client,                 \* APIClient: the object under construction / built
    call,                   \* APIClient.analyze_code: frame of the current call
    transport,              \* APIClient: outcome of every transport request
    waits,                  \* APIClient: argument of every time.sleep call
    window,                 \* MainWindow: api_client and what it has done
    nest,                   \* one batch item analysed through the APIClient
    history,                \* ReportHistoryDB: the table and the last query
    widget                  \* FileUploadWidget: selected_files and the list rows

twinVars == <<twin_input, twin, twin_first>>
clientVars == <<client, call, transport, waits>>
windowVars == <<window>>
extraVars == <<nest, history, widget>>
otherVars == <<twinVars, clientVars, windowVars, extraVars>>
batchVars == <<pc, file_paths, progress_callback, is_cancelled_callback,
               cancel_requested, cancel_at, i, results, success_count,
               failure_count, skipped_count, summary, original_code, attempt,
               retry_count, last_error, improved_code, result, chunks_read,
               progress_calls, cancel_log, load_log, client_items, outcomes,
               load_calls, prompt_calls, client_calls, report_calls, attempt_log,
               sleeps, discarded>>
vars == <<batchVars, otherVars>>

NoResult == [file_path |-> <<>>, file_name |-> "", success |-> FALSE,
             original_code |-> <<>>, improved_code |-> <<>>,
             report_markdown |-> <<>>, error_message |-> <<"none">>,
             retry_count |-> 0]

NoSummary == [returned |-> FALSE]

\* the states in which an item is being processed
InItem == {"progress", "load", "attempt", "prompt", "call", "drain", "report",
           "tally"}

NotRequested == [item |-> -1, in_item |-> FALSE]

CurPath == ItemAt(file_paths, i)

\* the other components before anything was called
NoTwinInput == [paths |-> <<>>, env |-> <<>>, stop_at |-> 0,
                callbacks |-> <<>>]
TwinIdle == [pc |-> "idle", run |-> 0, i |-> 0, results |-> <<>>,
             success_count |-> 0, failure_count |-> 0, skipped_count |-> 0,
             progress_calls |-> <<>>]
NoClient == [status |-> "none", provider |-> "None", model_name |-> "None",
             api_key |-> "None", sdk |-> {}]
NoCall == [pc |-> "idle", stream |-> FALSE, max_retries |-> 0, attempt |-> 0,
           value |-> "none", error |-> "None", cause |-> "None", chunks |-> 0]
NoEnv == [provider |-> "None", model |-> "None", api_key |-> "None",
          sdk |-> {}]
\* MainWindow.__init__: self.api_client = None
NewWindow(env) == [api_client |-> "None", env |-> env, constructed |-> FALSE,
                   analyze_calls |-> 0, batch_runs |-> 0, refused |-> 0,
                   analyze_enabled |-> TRUE]

TwinInit == twin_input = NoTwinInput /\ twin = TwinIdle /\ twin_first = NoSummary
ClientInit == client = NoClient /\ call = NoCall /\ transport = <<>> /\ waits = <<>>
WindowInit == window = NewWindow(NoEnv)

\* _analyze_single_file before its retry loop, for an item that loaded
NoNest == [pc |-> "idle", attempt |-> 0, retry_count |-> 0, requests |-> 0,
           failed |-> 0, outcome |-> "none"]

\* ReportHistoryDB on a new database file: the table is empty
NoHistory == [rows |-> {}, last_id |-> 0, asked |-> FALSE, limit |-> <<>>,
              returned |-> <<>>]

\* the placeholder row carries no path; a file row carries its path
Placeholder == <<>>

\* FileUploadWidget(): selected_files = [], then _init_ui calls
\* _update_placeholder on the new, empty list widget
NewWidget == [selected_files |-> <<>>, file_list |-> <<Placeholder>>]
ExtraInit == nest = NoNest /\ history = NoHistory /\ widget = NewWidget

BatchInit ==
    /\ pc = "idle"
    /\ file_paths = <<>>
    /\ progress_callback = FALSE
    /\ is_cancelled_callback = FALSE
    /\ cancel_requested = FALSE
    /\ cancel_at = NotRequested
    /\ i = 0
    /\ results = <<>>
    /\ success_count = 0 /\ failure_count = 0 /\ skipped_count = 0
    /\ summary = NoSummary
    /\ original_code = <<>> /\ attempt = 0 /\ retry_count = 0
    /\ last_error = NoError /\ improved_code = <<>>
    /\ result = NoResult
    /\ chunks_read = 0
    /\ progress_calls = <<>> /\ cancel_log = <<>>
    /\ load_log = <<>> /\ client_items = {} /\ outcomes = <<>>
    /\ load_calls = 0 /\ prompt_calls = 0
    /\ client_calls = 0 /\ report_calls = 0
    /\ attempt_log = <<>> /\ sleeps = 0 /\ discarded = FALSE

Init == BatchInit /\ TwinInit /\ ClientInit /\ WindowInit /\ ExtraInit

(* ----------------------------- analyze_files --------------------------- *)
\* the call: start_time, results = [], the three counters = 0
AnalyzeFiles(paths, has_progress, has_cancel) ==
    /\ pc = "idle"
    /\ file_paths' = paths
    /\ progress_callback' = has_progress
    /\ is_cancelled_callback' = has_cancel
    /\ i' = 0
    /\ results' = <<>>
    /\ success_count' = 0 /\ failure_count' = 0 /\ skipped_count' = 0
    /\ pc' = "loop"
    /\ UNCHANGED <<otherVars, cancel_requested, cancel_at, summary, localVars,
                   result, runHist, itemHist>>

\* the environment turns the cancellation condition on (the user presses
\* cancel, or a progress callback sets the flag)
RequestCancel ==
    /\ pc \notin {"idle", "done", "raised"}
    /\ is_cancelled_callback
    /\ ~cancel_requested
    /\ cancel_requested' = TRUE
    /\ cancel_at' = [item |-> i, in_item |-> pc \in InItem]
    /\ UNCHANGED <<otherVars, pc, runVars, i, tallyVars, summary, localVars, result,
                   runHist, itemHist>>

\* the for loop is exhausted
LoopExit ==
    /\ pc = "loop"
    /\ i >= Len(file_paths)
    /\ pc' = "return"
    /\ UNCHANGED <<otherVars, runVars, cancel_requested, cancel_at, i, tallyVars, summary, localVars,
                   result, runHist, itemHist>>

\* top of the loop body: the cancellation check says stop
CancelBreak ==
    /\ pc = "loop"
    /\ i < Len(file_paths)
    /\ ShouldBreak(is_cancelled_callback, cancel_requested)
    /\ cancel_log' = Append(cancel_log, cancel_requested)
    /\ pc' = "return"
    /\ UNCHANGED <<otherVars, runVars, cancel_requested, cancel_at, i, tallyVars, summary, localVars,
                   result, progress_calls, load_log, client_items, outcomes,
                   itemHist>>

\* top of the loop body: no callback, or the callback says go on
CancelCheck ==
    /\ pc = "loop"
    /\ i < Len(file_paths)
    /\ ~ShouldBreak(is_cancelled_callback, cancel_requested)
    /\ cancel_log' = IF is_cancelled_callback
                     THEN Append(cancel_log, cancel_requested) ELSE cancel_log
    /\ pc' = "progress"
    /\ UNCHANGED <<otherVars, runVars, cancel_requested, cancel_at, i, tallyVars, summary, localVars,
                   result, progress_calls, load_log, client_items, outcomes,
                   itemHist>>

\* file_name = Path(file_path).name; progress_callback(i, len, file_name)
Progress ==
    /\ pc = "progress"
    /\ progress_calls' =
         IF progress_callback
         THEN Append(progress_calls, ProgressArgs(i, file_paths))
         ELSE progress_calls
    /\ pc' = "load"
    /\ UNCHANGED <<otherVars, runVars, cancel_requested, cancel_at, i, tallyVars, summary, localVars,
                   result, cancel_log, load_log, client_items, outcomes,
                   itemHist>>

(* -------------------------- _analyze_single_file ----------------------- *)
\* entry of the function and the open() call
Load ==
    /\ pc = "load"
    /\ load_calls' = load_calls + 1
    /\ load_log' = Append(load_log, i)
    /\ retry_count' = 0
    /\ last_error' = NoError
    /\ attempt' = 0
    /\ improved_code' = <<>>
    /\ chunks_read' = 0
    /\ UNCHANGED <<otherVars, runVars, cancel_requested, cancel_at, i, tallyVars, summary,
                   progress_calls, cancel_log, client_items, outcomes,
                   prompt_calls, client_calls, report_calls, sleeps, discarded>>

\* step 1: open + read + strip gives a non-empty text
LoadOk(content) ==
    /\ Load
    /\ Strip(content) # <<>>
    /\ original_code' = Strip(content)
    /\ pc' = "attempt"
    /\ UNCHANGED <<result, attempt_log>>

\* the three early returns of step 1
LoadFails(msg) ==
    /\ Load
    /\ result' = LoadFailureResult(CurPath, msg)
    /\ original_code' = <<>>
    /\ attempt_log' = Append(attempt_log, "load_failed")
    /\ pc' = "tally"

\* step 1: the text is empty after strip()
LoadEmpty(content) ==
    /\ Strip(content) = <<>>
    /\ LoadFails(EmptyFileMsg)

\* step 1: except UnicodeDecodeError
LoadDecodeError == LoadFails(DecodeErrorMsg)

\* step 1: except Exception as e
LoadReadError(t) == LoadFails(ReadFailedMsg(t))

\* head of: for attempt in range(self.MAX_RETRIES)
NextAttempt ==
    /\ pc = "attempt"
    /\ HasAttempt(attempt)
    /\ pc' = "prompt"
    /\ UNCHANGED <<otherVars, runVars, cancel_requested, cancel_at, i, tallyVars, summary, localVars,
                   result, runHist, itemHist>>

\* the loop ran out: the return after the retry loop
RetriesExhausted ==
    /\ pc = "attempt"
    /\ ~HasAttempt(attempt)
    /\ result' = ExhaustedResult(CurPath, original_code, last_error, retry_count)
    /\ pc' = "tally"
    /\ UNCHANGED <<otherVars, runVars, cancel_requested, cancel_at, i, tallyVars, summary, localVars,
                   runHist, itemHist>>

\* both except clauses of the retry loop
OnError(err, tag) ==
    /\ IF CaughtInRetryLoop(err.cls)
       THEN /\ retry_count' = retry_count + 1
            /\ last_error' = err
            /\ sleeps' = sleeps + SleepsAfter(attempt)
            /\ attempt_log' = Append(attempt_log, tag)
            /\ discarded' = (discarded \/ improved_code # <<>>)
            /\ attempt' = attempt + 1
            /\ pc' = "attempt"
       ELSE \* no clause matches: the error leaves analyze_files
            /\ pc' = "raised"
            /\ UNCHANGED <<retry_count, last_error, sleeps, attempt_log, attempt,
                           discarded>>
    /\ UNCHANGED <<otherVars, runVars, cancel_requested, cancel_at, i, tallyVars, summary,
                   original_code, result, progress_calls, cancel_log,
                   load_log, outcomes, load_calls>>

\* prompt_builder.build_review_prompt returns
BuildPrompt ==
    /\ pc = "prompt"
    /\ prompt_calls' = prompt_calls + 1
    /\ pc' = "call"
    /\ UNCHANGED <<otherVars, runVars, cancel_requested, cancel_at, i, tallyVars, summary, localVars,
                   result, runHist, load_calls, client_calls, report_calls,
                   attempt_log, sleeps, discarded>>

\* prompt_builder.build_review_prompt raises
BuildPromptRaises(t) ==
    /\ pc = "prompt"
    /\ prompt_calls' = prompt_calls + 1
    /\ OnError(OtherError(t), "prompt_error")
    /\ UNCHANGED <<improved_code, chunks_read, client_items, client_calls,
                   report_calls>>

\* improved_code = ""; api_client.analyze_code(...) returns its stream
CallClient ==
    /\ pc = "call"
    /\ client_calls' = client_calls + 1
    /\ client_items' = client_items \cup {i}
    /\ improved_code' = FreshBuffer(improved_code)
    /\ chunks_read' = 0
    /\ pc' = "drain"
    /\ UNCHANGED <<otherVars, runVars, cancel_requested, cancel_at, i, tallyVars, summary,
                   original_code, attempt, retry_count, last_error, result,
                   progress_calls, cancel_log, load_log, outcomes,
                   load_calls, prompt_calls, report_calls, attempt_log, sleeps,
                   discarded>>

\* api_client.analyze_code(...) raises an APIClientError
CallClientRaises(t) ==
    /\ pc = "call"
    /\ client_calls' = client_calls + 1
    /\ client_items' = client_items \cup {i}
    /\ improved_code' = FreshBuffer(improved_code)
    /\ chunks_read' = 0
    /\ OnError(ClientError(t), "client_error")
    /\ UNCHANGED <<prompt_calls, report_calls>>

\* the stream yields one more chunk: improved_code += token
DrainChunk(c) ==
    /\ pc = "drain"
    /\ chunks_read < MaxChunks
    /\ improved_code' = Append(improved_code, c)
    /\ chunks_read' = chunks_read + 1
    /\ UNCHANGED <<otherVars, pc, runVars, cancel_requested, cancel_at, i, tallyVars, summary,
                   original_code, attempt, retry_count, last_error, result,
                   runHist, itemHist>>

\* the stream ends
DrainEnd ==
    /\ pc = "drain"
    /\ pc' = "report"
    /\ UNCHANGED <<otherVars, runVars, cancel_requested, cancel_at, i, tallyVars, summary, localVars,
                   result, runHist, itemHist>>

\* the stream raises while it is drained
DrainRaises(err) ==
    /\ pc = "drain"
    /\ OnError(err, "stream_error")
    /\ UNCHANGED <<improved_code, chunks_read, client_items, prompt_calls,
                   client_calls, report_calls>>

\* report_generator.generate_report returns: the successful return
Report ==
    /\ pc = "report"
    /\ report_calls' = report_calls + 1
    /\ result' = SuccessResult(CurPath, original_code, improved_code,
                               GenerateReport(original_code, improved_code),
                               retry_count)
    /\ attempt_log' = Append(attempt_log, "ok")
    /\ pc' = "tally"
    /\ UNCHANGED <<otherVars, runVars, cancel_requested, cancel_at, i, tallyVars, summary, localVars,
                   runHist, load_calls, prompt_calls, client_calls, sleeps,
                   discarded>>

\* report_generator.generate_report raises
ReportRaises(t) ==
    /\ pc = "report"
    /\ report_calls' = report_calls + 1
    /\ OnError(OtherError(t), "report_error")
    /\ UNCHANGED <<improved_code, chunks_read, client_items, prompt_calls,
                   client_calls>>

(* ------------------------ analyze_files, continued --------------------- *)
\* how the processing of the current item ended, as the stub observed it
Outcome(log) ==
    IF log = <<>> THEN "none"
    ELSE IF log[Len(log)] = "load_failed" THEN "load_failed"
    ELSE IF log[Len(log)] = "ok" THEN "success"
    ELSE "exhausted"

\* results.append(result) and the tally; then the next iteration.  The frame
\* of _analyze_single_file is gone, and so are the observations of its item.
Tally ==
    /\ pc = "tally"
    /\ results' = Append(results, result)
    /\ success_count' = success_count + SuccessInc(result)
    /\ skipped_count' = skipped_count + SkippedInc(result)
    /\ failure_count' = failure_count + FailureInc(result)
    /\ outcomes' = Append(outcomes, Outcome(attempt_log))
    /\ i' = NextIndex(i)
    /\ pc' = "loop"
    /\ original_code' = <<>> /\ attempt' = 0 /\ retry_count' = 0
    /\ last_error' = NoError /\ improved_code' = <<>> /\ chunks_read' = 0
    /\ load_calls' = 0 /\ prompt_calls' = 0 /\ client_calls' = 0
    /\ report_calls' = 0 /\ attempt_log' = <<>> /\ sleeps' = 0
    /\ discarded' = FALSE
    /\ UNCHANGED <<otherVars, runVars, cancel_requested, cancel_at, summary, result,
                   progress_calls, cancel_log, load_log, client_items>>

BatchAnalysisResult(total, ok, failed, skipped, res) ==
    [returned |-> TRUE, total_files |-> total, success_count |-> ok,
     failure_count |-> failed, skipped_count |-> skipped, results |-> res]

\* return BatchAnalysisResult(...)
Return ==
    /\ pc = "return"
    /\ summary' = BatchAnalysisResult(TotalFiles(file_paths, results), success_count,
                                      failure_count, skipped_count, results)
    /\ pc' = "done"
    /\ UNCHANGED <<otherVars, runVars, cancel_requested, cancel_at, i, tallyVars, localVars, result,
                   runHist, itemHist>>

Next ==
    \/ \E paths \in FileLists, hp \in BOOLEAN, hc \in BOOLEAN :
          AnalyzeFiles(paths, hp, hc)
    \/ RequestCancel
    \/ LoopExit
    \/ CancelBreak
    \/ CancelCheck
    \/ Progress
    \/ \E c \in Contents : LoadOk(c)
    \/ \E c \in Contents : LoadEmpty(c)
    \/ LoadDecodeError
    \/ \E t \in ErrTexts : LoadReadError(t)
    \/ NextAttempt
    \/ RetriesExhausted
    \/ BuildPrompt
    \/ \E t \in ErrTexts : BuildPromptRaises(t)
    \/ CallClient
    \/ \E t \in ErrTexts : CallClientRaises(t)
    \/ \E c \in Chunks : DrainChunk(c)
    \/ DrainEnd
    \/ \E t \in ErrTexts : DrainRaises(ClientError(t))
    \/ \E t \in ErrTexts : DrainRaises(OtherError(t))
    \/ Report
    \/ \E t \in ErrTexts : ReportRaises(t)
    \/ Tally
    \/ Return

Spec == Init /\ [][Next]_vars

TypeOK ==
    /\ pc \in {"idle", "loop", "progress", "load", "attempt", "prompt", "call",
               "drain", "report", "tally", "return", "done", "raised"}
    /\ i \in 0..MaxFiles
    /\ attempt \in 0..MAX_RETRIES
    /\ retry_count \in 0..MAX_RETRIES
    /\ Len(results) <= MaxFiles

(* ============================== properties ============================= *)
Last(s) == s[Len(s)]
Indexes(s) == 1..Len(s)
CountOf(s, v) == Cardinality({k \in Indexes(s) : s[k] = v})
Returned == summary.returned
ClientFailures == {"client_error", "stream_error"}
AtItemEnd == pc = "tally"

\* C1: whenever analyze_files returns (completed or cancelled, any mix of
\* outcomes), success_count + failure_count + skipped_count = len(results).
C1_CountsSumToResults ==
    Returned =>
        summary.success_count + summary.failure_count + summary.skipped_count
            = Len(summary.results)

\* a returned run with a skipped and a failed item
C1_Witness ==
    /\ Returned
    /\ summary.skipped_count = 1
    /\ summary.failure_count = 1
    /\ Len(summary.results) = 2

\* C2: the returned total_files is len(items) and len(results) <= len(items);
\* when no cancellation callback is given or it never returns true,
\* len(results) = len(items) and total_files is the sum of the three counts.
C2_TotalAndLength ==
    Returned =>
        /\ summary.total_files = Len(file_paths)
        /\ Len(summary.results) <= Len(file_paths)
        /\ (\A k \in Indexes(cancel_log) : ~cancel_log[k]) =>
              /\ Len(summary.results) = Len(file_paths)
              /\ summary.total_files =
                   summary.success_count + summary.failure_count
                     + summary.skipped_count

\* a cancelled run that returned fewer results than items
C2_Witness ==
    /\ Returned
    /\ Len(file_paths) = 2
    /\ Len(summary.results) = 1
    /\ summary.total_files = 2

\* C3: at every moment results is a prefix of the input in input order:
\* results[k].file_path = items[k] for every k.
C3_ResultsArePrefix ==
    /\ Len(results) <= Len(file_paths)
    /\ \A k \in Indexes(results) : results[k].file_path = file_paths[k]

\* two results of different kinds, in input order
C3_Witness ==
    /\ Len(results) = 2
    /\ ~results[1].success
    /\ results[2].success
    /\ results[1].file_path # results[2].file_path

\* C4: when the k-th cancellation check is the first to return true the
\* loop is left at once: no later check is made, results holds exactly the
\* first k-1 items, no progress call, load or client call was made for
\* item k or a later one, and the summary is returned with those results.
C4_CancelStopsAtCheck ==
    /\ \A k \in Indexes(cancel_log) : cancel_log[k] => k = Len(cancel_log)
    /\ (cancel_log # <<>> /\ Last(cancel_log)) =>
          LET k == Len(cancel_log) IN
          /\ pc \in {"return", "done"}
          /\ Len(results) = k - 1
          /\ \A j \in Indexes(results) : results[j].file_path = file_paths[j]
          /\ \A j \in Indexes(progress_calls) : progress_calls[j][1] < k - 1
          /\ \A j \in Indexes(load_log) : load_log[j] < k - 1
          /\ \A idx \in client_items : idx < k - 1
          /\ pc = "done" => (Returned /\ summary.results = results)

\* cancelled at the second check, after the first item called the client
C4_Witness ==
    /\ pc = "done"
    /\ cancel_log = <<FALSE, TRUE>>
    /\ Len(file_paths) = 2
    /\ client_items = {0}
    /\ Len(summary.results) = 1

\* C5: an item whose load fails ends as a non-success result that the tally
\* counts as skipped, with retry_count 0, without the retry loop being
\* entered: the prompt builder and the client were not called for it.
C5_LoadFailureIsSkip ==
    /\ (AtItemEnd /\ "load_failed" \in {attempt_log[k] : k \in Indexes(attempt_log)}) =>
          /\ attempt_log = <<"load_failed">>
          /\ ~result.success
          /\ SkippedInc(result) = 1
          /\ result.retry_count = 0
          /\ prompt_calls = 0 /\ client_calls = 0 /\ report_calls = 0
          /\ i \notin client_items
    /\ \A k \in Indexes(outcomes) :
          outcomes[k] = "load_failed" =>
              /\ ~results[k].success
              /\ results[k].retry_count = 0
              /\ (k - 1) \notin client_items

\* a load failure of the second item, after a first item that used the client
C5_Witness ==
    /\ AtItemEnd
    /\ i = 1
    /\ attempt_log = <<"load_failed">>
    /\ client_items = {0}

\* the attempts so far are k failures of the client followed by a success
FailsThenSucceeds(log) ==
    /\ log # <<>>
    /\ Last(log) = "ok"
    /\ \A k \in 1..(Len(log) - 1) : log[k] \in ClientFailures

\* C6: when the client fails on the first k attempts (k < 3) and then
\* succeeds, the result is a success with retry_count = k and the client was
\* called exactly k + 1 times for the item.
C6_RetryCountOnSuccess ==
    (AtItemEnd /\ FailsThenSucceeds(attempt_log)) =>
        /\ result.success
        /\ result.retry_count = Len(attempt_log) - 1
        /\ client_calls = Len(attempt_log)
        /\ Len(attempt_log) <= MAX_RETRIES

\* two failures, then a success
C6_Witness ==
    /\ AtItemEnd
    /\ Len(attempt_log) = 3
    /\ FailsThenSucceeds(attempt_log)
    /\ result.retry_count = 2
    /\ client_calls = 3

\* every attempt of a loaded item failed in the client
ClientAlwaysFailed(log) ==
    /\ Len(log) = MAX_RETRIES
    /\ \A k \in Indexes(log) : log[k] \in ClientFailures

\* C7 (as claimed): a loadable item whose client fails on every call,
\* whatever the text of the errors, ends failed and not skipped: counted in
\* failure_count, not in skipped_count, with retry_count 3 after 3 calls.
C7_ExhaustedIsFailure ==
    (AtItemEnd /\ ClientAlwaysFailed(attempt_log)) =>
        /\ ~result.success
        /\ FailureInc(result) = 1
        /\ SkippedInc(result) = 0
        /\ result.retry_count = MAX_RETRIES
        /\ client_calls = MAX_RETRIES

\* C8 (as claimed): in the summary skipped_count counts exactly the items
\* that short-circuited at load, and failure_count exactly the items whose
\* retries were exhausted.
C8_SkipIffLoadFailure ==
    Returned =>
        /\ summary.skipped_count = CountOf(outcomes, "load_failed")
        /\ summary.failure_count = CountOf(outcomes, "exhausted")

\* C9 (as claimed): a result with success = true has an empty error_message
\* and a non-empty improved_code, whatever chunks the stream delivered.
C9_SuccessHasImprovedCode ==
    \A k \in Indexes(results) :
        results[k].success =>
            /\ results[k].error_message = <<>>
            /\ results[k].improved_code # <<>>

\* C10: every result with success = false has a non-empty error_message
\* (empty file, decode error, read error, exhausted retries).
C10_FailureHasMessage ==
    /\ \A k \in Indexes(results) :
          ~results[k].success => results[k].error_message # <<>>
    /\ (AtItemEnd /\ ~result.success) => result.error_message # <<>>

\* retries exhausted by errors whose text is empty
C10_Witness ==
    /\ Len(results) = 2
    /\ outcomes[1] = "exhausted"
    /\ results[1].error_message = ExhaustedMsg(<<>>)
    /\ outcomes[2] = "load_failed"
    /\ results[2].error_message = ReadFailedMsg(<<>>)

(* ------------------------- C11 .. C20 (batch run) ---------------------- *)
ErrorTags == {"load_failed", "prompt_error", "client_error", "stream_error",
              "report_error"}
HadError(log) == \E k \in Indexes(log) : log[k] \in ErrorTags

\* C11 (as claimed): no error raised while an item is processed leaves
\* analyze_files, and every item that met an error is recorded as a
\* non-success result.
C11_ErrorMeansFailure ==
    /\ pc # "raised"
    /\ (AtItemEnd /\ HadError(attempt_log)) => ~result.success

\* C11 (amended): no error raised while an item is processed leaves
\* analyze_files; the item is recorded as a non-success result unless a later
\* attempt of the retry loop succeeds, and the run goes on: every item that
\* was started has its result appended.
C11_ErrorsContained ==
    /\ pc # "raised"
    /\ AtItemEnd => (result.success <=> Last(attempt_log) = "ok")
    /\ (AtItemEnd /\ HadError(attempt_log) /\ Last(attempt_log) # "ok") =>
          /\ ~result.success
          /\ result.error_message # <<>>
    /\ pc \in {"loop", "return", "done"} =>
          (Len(results) = i /\ Len(outcomes) = i)

\* the first item exhausted its retries on collaborator errors and the
\* second item was processed all the same
C11_Witness ==
    /\ Len(results) = 2
    /\ outcomes = <<"exhausted", "success">>
    /\ results[2].retry_count = 1
    /\ results[1].error_message = ExhaustedMsg(<<>>)

\* the part of an exhausted-retries message that precedes str(last_error)
MessagePrefix(msg, text) == SubSeq(msg, 1, Len(msg) - Len(text))

\* every attempt failed outside the client (prompt builder, report generator)
ExhaustedByUnexpected(log) ==
    /\ Len(log) = MAX_RETRIES
    /\ \A k \in Indexes(log) : log[k] \in {"prompt_error", "report_error"}

\* C12 (as claimed): the message recorded when retries are exhausted by
\* unexpected errors differs, in its prefix, from the message recorded when
\* they are exhausted by client errors.
C12_UnexpectedPrefixDiffers ==
    (AtItemEnd /\ ExhaustedByUnexpected(attempt_log)) =>
        MessagePrefix(result.error_message, last_error.text)
          # MessagePrefix(
              ExhaustedResult(CurPath, original_code,
                              ClientError(last_error.text),
                              retry_count).error_message,
              last_error.text)

\* C13: a supplied progress callback is called once per attempted item,
\* before the item is loaded, in input order, with (0-based index,
\* len(items), base name of the item), and never for an item that is not
\* processed; when none is supplied nothing is called.
C13_ProgressOncePerItem ==
    /\ ~progress_callback => progress_calls = <<>>
    /\ progress_callback =>
          /\ \A j \in Indexes(progress_calls) :
                progress_calls[j]
                  = <<j - 1, Len(file_paths), Last(file_paths[j])>>
          /\ Len(progress_calls)
               = Len(load_log) + (IF pc = "load" THEN 1 ELSE 0)
          /\ pc \in {"loop", "return", "done"} =>
                Len(progress_calls) = Len(results)

\* a cancelled run: one call for the processed item, none for the other
C13_Witness ==
    /\ pc = "done"
    /\ progress_callback
    /\ Len(file_paths) = 2
    /\ progress_calls = <<<<0, 2, "A.cs">>>>
    /\ Len(summary.results) = 1

\* the state of the item being processed, of the state machine of one item
ItemState ==
    IF pc = "load" THEN <<"Loading">>
    ELSE IF pc \in {"prompt", "call", "drain", "report"} THEN <<"Analyzing", attempt>>
    ELSE IF pc = "attempt" THEN
        (IF attempt < MAX_RETRIES THEN <<"Analyzing", attempt>>
         ELSE <<"ExhaustedFailure">>)
    ELSE IF pc = "tally" THEN
        (IF Outcome(attempt_log) = "load_failed" THEN <<"Skipped">>
         ELSE IF Outcome(attempt_log) = "success" THEN <<"Success">>
         ELSE <<"ExhaustedFailure">>)
    ELSE <<"None">>

Terminal == {<<"Skipped">>, <<"Success">>, <<"ExhaustedFailure">>}

ItemTransition(s, t) ==
    \/ s = t
    \/ s = <<"None">> /\ t = <<"Loading">>
    \/ s = <<"Loading">> /\ t \in {<<"Skipped">>, <<"Analyzing", 0>>}
    \/ /\ s[1] = "Analyzing"
       /\ \/ t = <<"Success">>
          \/ s[2] < 2 /\ t = <<"Analyzing", s[2] + 1>>
          \/ s[2] = 2 /\ t = <<"ExhaustedFailure">>
    \/ s \in Terminal /\ t = <<"None">>

\* C19: an item only takes the transitions Loading -> Skipped,
\* Loading -> Analyzing(0), Analyzing(a) -> Success, Analyzing(a) ->
\* Analyzing(a+1) for a < 2 and Analyzing(2) -> ExhaustedFailure; the
\* attempt index never exceeds 2; from a terminal state exactly one result
\* is appended, and an appended result never changes.
C19_ItemStateMachine ==
    [][ /\ ItemTransition(ItemState, ItemState')
        /\ (ItemState'[1] = "Analyzing" => ItemState'[2] <= 2)
        /\ \A k \in Indexes(results) : results'[k] = results[k]
        /\ IF ItemState \in Terminal /\ ItemState' = <<"None">>
           THEN results' = Append(results, result)
           ELSE results' = results
      ]_vars

\* the third attempt failed: Analyzing(2) -> ExhaustedFailure
C19_Witness ==
    /\ AtItemEnd
    /\ attempt_log = <<"prompt_error", "stream_error", "report_error">>
    /\ attempt = 3
    /\ ~result.success

\* C20: the cancellation callback is asked once before each item, before
\* that item's progress call, and nowhere else; when the condition becomes
\* true while item i is in progress (during its progress call or its
\* analysis), item i is still finished and appended, and the run stops at
\* the check before item i+1.
C20_CancelOnlyAtBoundaries ==
    /\ is_cancelled_callback =>
          /\ pc \in InItem => Len(cancel_log) = i + 1
          /\ pc = "loop" => Len(cancel_log) = i
          /\ progress_callback => Len(progress_calls) <= Len(cancel_log)
    /\ (cancel_requested /\ cancel_at.in_item) =>
          /\ pc \in InItem => (i = cancel_at.item /\ Len(results) = i)
          /\ pc \in {"loop", "return", "done"} =>
                /\ Len(results) = cancel_at.item + 1
                /\ results[cancel_at.item + 1].file_path
                     = file_paths[cancel_at.item + 1]
          /\ (pc \in {"return", "done"} /\ cancel_at.item + 1 < Len(file_paths)) =>
                /\ Len(cancel_log) = cancel_at.item + 2
                /\ Last(cancel_log)
                /\ Len(load_log) = cancel_at.item + 1

\* cancellation requested while the first of two items was in progress
C20_Witness ==
    /\ pc = "done"
    /\ cancel_at = [item |-> 0, in_item |-> TRUE]
    /\ Len(file_paths) = 2
    /\ Len(summary.results) = 1
    /\ summary.results[1].success
    /\ cancel_log = <<FALSE, TRUE>>

(* ======================================================================= *)
(* Two runs of analyze_files over the same items and the same environment  *)
(* ======================================================================= *)
\* The environment is scripted per item, so that a second call of
\* analyze_files meets the same loader, client and collaborators as the
\* first.  A script says how open() ends and how every attempt ends.
AttemptScripts ==
    { s \in [1..MAX_RETRIES -> {"ok", "error"}] :
        \A k \in 1..(MAX_RETRIES - 1) : s[k] = "ok" => s[k + 1] = "ok" }

AllOk == [k \in 1..MAX_RETRIES |-> "ok"]

Behaviours ==
    { [load |-> "ok", attempts |-> s] : s \in AttemptScripts }
      \cup { [load |-> l, attempts |-> AllOk] : l \in {"empty", "decode"} }

ScriptedContent(b) == IF b.load = "empty" THEN <<" ">> ELSE <<" ", "class X", " ">>
ScriptedChunks == <<"code">>
ScriptedError == ClientError(<<"timeout">>)

\* the retry loop of _analyze_single_file against a script
RECURSIVE RetryLoop(_, _, _, _, _, _)
RetryLoop(path, orig, script, att, retries, last) ==
    IF ~HasAttempt(att)
    THEN ExhaustedResult(path, orig, last, retries)
    ELSE IF script[att + 1] = "ok"
         THEN SuccessResult(path, orig, ScriptedChunks,
                            GenerateReport(orig, ScriptedChunks), retries)
         ELSE RetryLoop(path, orig, script, att + 1, retries + 1, ScriptedError)

\* _analyze_single_file against a script
AnalyzeSingleFile(path, b) ==
    IF b.load = "decode" THEN LoadFailureResult(path, DecodeErrorMsg)
    ELSE IF Strip(ScriptedContent(b)) = <<>>
         THEN LoadFailureResult(path, EmptyFileMsg)
         ELSE RetryLoop(path, Strip(ScriptedContent(b)), b.attempts, 0, 0, NoError)

Runs == {1, 2}
CallbackPairs == [progress_callback : BOOLEAN, is_cancelled_callback : BOOLEAN]

TwinInputs ==
    UNION { [paths : {paths}, env : [1..Len(paths) -> Behaviours],
             stop_at : 0..Len(paths),
             callbacks : [Runs -> CallbackPairs]] : paths \in FileLists }

TwinCallbacks == twin_input.callbacks[twin.run]
\* what is_cancelled_callback() answers at the check of item twin.i: false
\* until the user cancels, true from then on
TwinAnswer == twin.i >= twin_input.stop_at

\* the first call of analyze_files, on chosen items, environment and callbacks
TwinSetup ==
    /\ twin.pc = "idle" /\ twin.run = 0
    /\ \E input \in TwinInputs : twin_input' = input
    /\ twin' = [TwinIdle EXCEPT !.pc = "loop", !.run = 1]
    /\ UNCHANGED <<twin_first, extraVars, batchVars, clientVars, windowVars>>

TwinLoopExit ==
    /\ twin.pc = "loop"
    /\ twin.i >= Len(twin_input.paths)
    /\ twin' = [twin EXCEPT !.pc = "return"]
    /\ UNCHANGED <<twin_input, twin_first, extraVars, batchVars, clientVars, windowVars>>

TwinCancelBreak ==
    /\ twin.pc = "loop"
    /\ twin.i < Len(twin_input.paths)
    /\ ShouldBreak(TwinCallbacks.is_cancelled_callback, TwinAnswer)
    /\ twin' = [twin EXCEPT !.pc = "return"]
    /\ UNCHANGED <<twin_input, twin_first, extraVars, batchVars, clientVars, windowVars>>

TwinCancelCheck ==
    /\ twin.pc = "loop"
    /\ twin.i < Len(twin_input.paths)
    /\ ~ShouldBreak(TwinCallbacks.is_cancelled_callback, TwinAnswer)
    /\ twin' = [twin EXCEPT !.pc = "progress"]
    /\ UNCHANGED <<twin_input, twin_first, extraVars, batchVars, clientVars, windowVars>>

\* a progress callback without side effects: it only sees its arguments
TwinProgress ==
    /\ twin.pc = "progress"
    /\ twin' = [twin EXCEPT
                  !.pc = "analyze",
                  !.progress_calls =
                      IF TwinCallbacks.progress_callback
                      THEN Append(@, ProgressArgs(twin.i, twin_input.paths))
                      ELSE @]
    /\ UNCHANGED <<twin_input, twin_first, extraVars, batchVars, clientVars, windowVars>>

\* result = self._analyze_single_file(file_path); append; tally
TwinAnalyze ==
    /\ twin.pc = "analyze"
    /\ LET r == AnalyzeSingleFile(ItemAt(twin_input.paths, twin.i),
                                  twin_input.env[twin.i + 1])
       IN twin' = [twin EXCEPT
                     !.pc = "loop",
                     !.i = @ + 1,
                     !.results = Append(@, r),
                     !.success_count = @ + SuccessInc(r),
                     !.skipped_count = @ + SkippedInc(r),
                     !.failure_count = @ + FailureInc(r)]
    /\ UNCHANGED <<twin_input, twin_first, extraVars, batchVars, clientVars, windowVars>>

TwinSummary ==
    BatchAnalysisResult(TotalFiles(twin_input.paths, twin.results),
                        twin.success_count, twin.failure_count,
                        twin.skipped_count, twin.results)

\* the first run returns; analyze_files is called again with the other callbacks
TwinReturnFirst ==
    /\ twin.pc = "return" /\ twin.run = 1
    /\ twin_first' = TwinSummary
    /\ twin' = [TwinIdle EXCEPT !.pc = "loop", !.run = 2]
    /\ UNCHANGED <<twin_input, extraVars, batchVars, clientVars, windowVars>>

\* the second run returns
TwinReturnSecond ==
    /\ twin.pc = "return" /\ twin.run = 2
    /\ twin' = [twin EXCEPT !.pc = "done"]
    /\ UNCHANGED <<twin_input, twin_first, extraVars, batchVars, clientVars, windowVars>>

TwinNext ==
    \/ TwinSetup
    \/ TwinLoopExit
    \/ TwinCancelBreak
    \/ TwinCancelCheck
    \/ TwinProgress
    \/ TwinAnalyze
    \/ TwinReturnFirst
    \/ TwinReturnSecond

SpecTwin == Init /\ [][TwinNext]_vars

\* a run never told to stop: its callback is absent or always answers false
NeverCancels(run) ==
    \/ ~twin_input.callbacks[run].is_cancelled_callback
    \/ twin_input.stop_at >= Len(twin_input.paths)

BothReturned == twin.pc = "done"

\* C14: two runs over the same items and the same behaviour of the loader,
\* client and collaborators return the same results and the same counts
\* whether progress_callback is absent or a side-effect-free callback, and
\* whether is_cancelled_callback is absent or a callback that always
\* answers false.
C14_CallbacksAreOptional ==
    (BothReturned /\ NeverCancels(1) /\ NeverCancels(2))
        => /\ TwinSummary = twin_first
           /\ twin.results = twin_first.results
           /\ Len(twin.results) = Len(twin_input.paths)

\* the first run had no callback at all and the second had both, the second
\* item was skipped and the first needed two retries
C14_Witness ==
    /\ BothReturned
    /\ twin_input.callbacks[1] =
         [progress_callback |-> FALSE, is_cancelled_callback |-> FALSE]
    /\ twin_input.callbacks[2] =
         [progress_callback |-> TRUE, is_cancelled_callback |-> TRUE]
    /\ NeverCancels(2)
    /\ Len(twin.progress_calls) = 2
    /\ twin_first.success_count = 1 /\ twin_first.skipped_count = 1
    /\ twin.results[1].retry_count = 2
    /\ twin.results = twin_first.results

(* ======================================================================= *)
(* APIClient: construction, analyze_code, and the drain of its stream      *)
(* ======================================================================= *)
MaxRetriesArg == 3

\* APIClient.MODELS
MODELS(provider) ==
    CASE provider = "openai" ->
           {"gpt-5.1", "gpt-5", "gpt-5-mini", "gpt-5-nano", "gpt-5.1-chat-latest",
            "gpt-5-chat-latest", "gpt-5.1-codex", "gpt-5-codex", "gpt-5-pro",
            "gpt-4.1", "gpt-4.1-mini", "gpt-4.1-nano", "gpt-4", "gpt-4-turbo",
            "gpt-4o", "gpt-4o-2024-05-13", "gpt-4o-mini", "gpt-3.5-turbo",
            "gpt-realtime"}
      [] provider = "anthropic" ->
           {"claude-3-5-sonnet-20241022", "claude-3-5-haiku-20241022",
            "claude-3-opus-20240229", "claude-3-sonnet-20240229",
            "claude-3-haiku-20240307"}
      [] OTHER -> {}

\* if model_name is None: the provider's default
DefaultModel(provider, model_name) ==
    IF model_name = "None"
    THEN IF provider = "openai" THEN "gpt-4o-mini" ELSE "claude-3-5-haiku-20241022"
    ELSE model_name

\* provider in self.MODELS and model_name in self.MODELS[provider]
InTable(provider, model_name) == model_name \in MODELS(provider)

\* mutant: only a missing variable counts, an empty one passes
HasKey_NotNone(api_key) == api_key # "None"

\* the negation of: if not api_key
HasKey(api_key) == api_key \notin {"None", ""}

\* _init_clients: the import, then the key check, inside try/except ImportError
InitClients(provider, api_key, sdk) ==
    IF provider \notin sdk THEN "APIClientError"
    ELSE IF ~HasKey(api_key) THEN "APIKeyMissingError"
    ELSE "built"

\* how APIClient(provider, model_name) ends in an environment where the
\* provider's key variable holds api_key and the packages in sdk import
ConstructOutcome(provider, model_name, api_key, sdk) ==
    IF ~InTable(provider, DefaultModel(provider, model_name))
    THEN "ModelNotFoundError"
    ELSE InitClients(provider, api_key, sdk)

Providers == {"openai", "anthropic", "ollama"}
ModelArgs == {"None", "gpt-4o-mini", "gpt-5", "claude-3-5-haiku-20241022",
              "phi3:mini"}
Keys == {"None", "", "sk-key"}
SdkSets == SUBSET {"openai", "anthropic"}
TransportErrors == {"timeout", "refused"}

\* APIClient(provider, model_name)
Construct(provider, model_name, api_key, sdk) ==
    /\ client.status = "none"
    /\ client' = [status |-> ConstructOutcome(provider, model_name, api_key, sdk),
                  provider |-> provider,
                  model_name |-> DefaultModel(provider, model_name),
                  api_key |-> api_key, sdk |-> sdk]
    /\ UNCHANGED <<call, transport, waits, extraVars, batchVars, twinVars, windowVars>>

RECURSIVE Pow2(_)
Pow2(n) == IF n = 0 THEN 1 ELSE 2 * Pow2(n - 1)

\* mutant: the fixed one-second pause of the batch layer
WaitTime_Fixed(att) == 1

\* wait_time = 2 ** attempt
WaitTime(att) == Pow2(att)

\* for attempt in range(max_retries)
MoreAttempts(att, max_retries) == att < max_retries

\* mutant: the last attempt waits and goes round again
RetriesLeft_OffByOne(att, max_retries) == att < max_retries

\* if attempt < max_retries - 1
RetriesLeft(att, max_retries) == att < max_retries - 1

\* the call of analyze_code on a constructed client
AnalyzeCode(stream, max_retries) ==
    /\ client.status = "built"
    /\ call.pc = "idle"
    /\ call' = [NoCall EXCEPT !.pc = "loop", !.stream = stream,
                              !.max_retries = max_retries]
    /\ transport' = <<>>
    /\ waits' = <<>>
    /\ UNCHANGED <<client, extraVars, batchVars, twinVars, windowVars>>

\* the loop body never runs, or runs out: the function ends without a return
LoopEnd ==
    /\ call.pc = "loop"
    /\ ~MoreAttempts(call.attempt, call.max_retries)
    /\ call' = [call EXCEPT !.pc = "returned", !.value = "None"]
    /\ UNCHANGED <<client, transport, waits, extraVars, batchVars, twinVars, windowVars>>

\* return self._stream_response(prompt): a generator function, so the call
\* only makes the generator object and nothing of its body has run
ReturnStream ==
    /\ call.pc = "loop"
    /\ MoreAttempts(call.attempt, call.max_retries)
    /\ call.stream
    /\ call' = [call EXCEPT !.pc = "returned", !.value = "generator"]
    /\ UNCHANGED <<client, transport, waits, extraVars, batchVars, twinVars, windowVars>>

\* return self._get_response(prompt): the request succeeds
ResponseOk ==
    /\ call.pc = "loop"
    /\ MoreAttempts(call.attempt, call.max_retries)
    /\ ~call.stream
    /\ transport' = Append(transport, "ok")
    /\ call' = [call EXCEPT !.pc = "returned", !.value = "text"]
    /\ UNCHANGED <<client, waits, extraVars, batchVars, twinVars, windowVars>>

\* self._get_response(prompt) raises e: except Exception as e
ResponseFails(e) ==
    /\ call.pc = "loop"
    /\ MoreAttempts(call.attempt, call.max_retries)
    /\ ~call.stream
    /\ transport' = Append(transport, e)
    /\ IF RetriesLeft(call.attempt, call.max_retries)
       THEN /\ waits' = Append(waits, WaitTime(call.attempt))
            /\ call' = [call EXCEPT !.attempt = @ + 1, !.cause = e]
       ELSE /\ waits' = waits
            /\ call' = [call EXCEPT !.pc = "raised",
                                    !.error = "APIConnectionError", !.cause = e]
    /\ UNCHANGED <<client, extraVars, batchVars, twinVars, windowVars>>

\* the caller's first next(): the body of _stream_response starts, the request
\* is sent and accepted
StreamOpens ==
    /\ call.pc = "returned" /\ call.value = "generator"
    /\ transport' = Append(transport, "ok")
    /\ call' = [call EXCEPT !.pc = "streaming"]
    /\ UNCHANGED <<client, waits, extraVars, batchVars, twinVars, windowVars>>

\* the caller's first next(): the request fails; except Exception: raise
StreamOpenFails(e) ==
    /\ call.pc = "returned" /\ call.value = "generator"
    /\ transport' = Append(transport, e)
    /\ call' = [call EXCEPT !.pc = "raised", !.error = "TransportError",
                            !.cause = e]
    /\ UNCHANGED <<client, waits, extraVars, batchVars, twinVars, windowVars>>

\* yield of one token
StreamChunk ==
    /\ call.pc = "streaming"
    /\ call.chunks < MaxChunks
    /\ call' = [call EXCEPT !.chunks = @ + 1]
    /\ UNCHANGED <<client, transport, waits, extraVars, batchVars, twinVars, windowVars>>

\* the response is exhausted: the generator ends
StreamEnd ==
    /\ call.pc = "streaming"
    /\ call' = [call EXCEPT !.pc = "drained"]
    /\ UNCHANGED <<client, transport, waits, extraVars, batchVars, twinVars, windowVars>>

\* the transport fails while the response is read; except Exception: raise
StreamBreaks(e) ==
    /\ call.pc = "streaming"
    /\ call' = [call EXCEPT !.pc = "raised", !.error = "TransportError",
                            !.cause = e]
    /\ UNCHANGED <<client, transport, waits, extraVars, batchVars, twinVars, windowVars>>

\* the caller is done with the call's outcome
CallOver ==
    /\ call.pc \in {"returned", "drained", "raised"}
    /\ call.value # "generator" \/ call.pc # "returned"
    /\ call' = NoCall
    /\ transport' = <<>>
    /\ waits' = <<>>
    /\ UNCHANGED <<client, extraVars, batchVars, twinVars, windowVars>>

ClientNext ==
    \/ \E p \in Providers, m \in ModelArgs, k \in Keys, sdk \in SdkSets :
          Construct(p, m, k, sdk)
    \/ \E st \in BOOLEAN, n \in 0..MaxRetriesArg : AnalyzeCode(st, n)
    \/ LoopEnd
    \/ ReturnStream
    \/ ResponseOk
    \/ \E e \in TransportErrors : ResponseFails(e)
    \/ StreamOpens
    \/ \E e \in TransportErrors : StreamOpenFails(e)
    \/ StreamChunk
    \/ StreamEnd
    \/ \E e \in TransportErrors : StreamBreaks(e)
    \/ CallOver

SpecClient == Init /\ [][ClientNext]_vars

(* ----------------------------------------------------------------------- *)
(* C15 .. C17 (APIClient)                                                   *)
(* ----------------------------------------------------------------------- *)
AllFailed(log, n) == \A k \in 1..n : log[k] \in TransportErrors

\* C15: in streaming mode a transport error at connection, first byte or
\* during the drain is retried by analyze_code up to max_retries attempts,
\* and what the caller finally observes is an APIConnectionError wrapping
\* the last error, never the raw transport error.
C15_StreamingErrorsRetriedAndWrapped ==
    (call.stream /\ call.max_retries >= 1 /\ call.pc = "raised")
        => /\ call.error = "APIConnectionError"
           /\ Len(transport) = call.max_retries
           /\ AllFailed(transport, Len(transport))
           /\ call.cause = Last(transport)

NonStreaming == call.pc # "idle" /\ ~call.stream /\ call.max_retries >= 1

\* C16: in non-streaming mode with max_retries = n >= 1, requests are issued
\* one after another until the first success or until n have failed: a
\* success on request j <= n is returned after exactly j requests, and n
\* failures raise APIConnectionError wrapping the last error after exactly n
\* requests.
C16_NonStreamingRetries ==
    NonStreaming =>
        /\ Len(transport) <= call.max_retries
        /\ AllFailed(transport, Len(transport) - 1)
        /\ call.pc \in {"loop", "returned", "raised"}
        /\ call.pc = "loop" =>
              /\ Len(transport) = call.attempt
              /\ AllFailed(transport, Len(transport))
              /\ call.attempt < call.max_retries
        /\ call.pc = "returned" =>
              /\ call.value = "text"
              /\ transport # <<>> /\ Last(transport) = "ok"
              /\ Len(transport) = call.attempt + 1
        /\ call.pc = "raised" =>
              /\ call.error = "APIConnectionError"
              /\ Len(transport) = call.max_retries
              /\ AllFailed(transport, Len(transport))
              /\ call.cause = Last(transport)
        /\ waits = [k \in 1..call.attempt |-> Pow2(k - 1)]

\* two requests failed, each followed by its wait, and the third succeeded
C16_Witness ==
    /\ ~call.stream /\ call.max_retries = 3
    /\ call.pc = "returned" /\ call.value = "text"
    /\ transport = <<"timeout", "refused", "ok">>
    /\ waits = <<1, 2>>

Constructed == client.status # "none"
KeyAbsent == client.api_key \in {"None", ""}

\* C17: construction fails with ModelNotFoundError whenever the (provider,
\* model name) pair, after defaulting, is not in the capability table,
\* whatever the credential; it fails with APIKeyMissingError whenever the
\* pair is in the table and the credential is absent or empty; no client
\* object is produced in either case.
C17_ConstructionErrors ==
    Constructed =>
        /\ ~InTable(client.provider, client.model_name)
              => client.status = "ModelNotFoundError"
        /\ (InTable(client.provider, client.model_name) /\ KeyAbsent)
              => client.status = "APIKeyMissingError"

\* C17 as the code has it: the key is looked at only after the provider's
\* package was imported, and a failed import ends construction with the
\* base APIClientError.
C17_ConstructionErrorsWhenImportable ==
    Constructed =>
        /\ ~InTable(client.provider, client.model_name)
              => client.status = "ModelNotFoundError"
        /\ (InTable(client.provider, client.model_name) /\ KeyAbsent
              /\ client.provider \in client.sdk)
              => client.status = "APIKeyMissingError"
        /\ (InTable(client.provider, client.model_name)
              /\ client.provider \notin client.sdk)
              => client.status = "APIClientError"
        /\ client.status = "built" =>
              /\ InTable(client.provider, client.model_name)
              /\ ~KeyAbsent
              /\ client.provider \in client.sdk
        /\ call.pc # "idle" => client.status = "built"

\* the model name was omitted, the default is in the table, the package
\* imports, and the key variable is set but empty
C17_Witness ==
    /\ client.status = "APIKeyMissingError"
    /\ client.provider = "anthropic"
    /\ client.model_name = "claude-3-5-haiku-20241022"
    /\ client.api_key = ""
    /\ "anthropic" \in client.sdk

(* ======================================================================= *)
(* MainWindow: the connection test and the analyze entry points            *)
(* ======================================================================= *)
MaxRequests == 2

\* os.getenv("DEFAULT_PROVIDER", "openai")
EnvProvider(v) == IF v = "None" THEN "openai" ELSE v

\* os.getenv("DEFAULT_MODEL") or None
EnvModel(v) == IF v \in {"None", ""} THEN "None" ELSE v

Envs == [provider : {"None", "openai", "anthropic", "ollama"},
         model : {"None", "", "gpt-4o-mini", "phi3:mini"},
         api_key : Keys, sdk : SdkSets]

\* APIClient(provider=provider, model_name=model_name) in the window's process
WindowConstruct(env) ==
    ConstructOutcome(EnvProvider(env.provider), EnvModel(env.model),
                     env.api_key, env.sdk)

\* mutant: the entry points go on without a client
Refuses_Never(api_client) == FALSE

\* if self.api_client is None: warning; return
Refuses(api_client) == api_client = "None"

Capped(n) == IF n < MaxRequests THEN n + 1 ELSE n

\* _test_ollama_connection; connected says how test_connection() ends
TestConnection(connected) ==
    LET outcome == IF window.api_client = "None"
                   THEN WindowConstruct(window.env) ELSE "built"
    IN /\ window' =
            IF outcome = "built"
            THEN [window EXCEPT !.api_client = "client",
                                !.constructed = TRUE,
                                !.analyze_enabled = connected]
            ELSE \* except APIClientError: the assignment never happened
                 [window EXCEPT !.analyze_enabled = FALSE]
       /\ UNCHANGED <<extraVars, batchVars, twinVars, clientVars>>

\* what an entry point does once it has something to analyze
Proceed(field) ==
    IF Refuses(window.api_client)
    THEN [window EXCEPT !.refused = Capped(@)]
    ELSE [window EXCEPT ![field] = Capped(@), !.analyze_enabled = TRUE]

\* _on_analyze, text tab
AnalyzeText(code) ==
    /\ window' = IF Strip(code) = <<>> THEN window ELSE Proceed("analyze_calls")
    /\ UNCHANGED <<extraVars, batchVars, twinVars, clientVars>>

\* _on_analyze, file tab, one selected file that reads as content
AnalyzeOneFile(content) ==
    /\ window' = IF Strip(content) = <<>> THEN window ELSE Proceed("analyze_calls")
    /\ UNCHANGED <<extraVars, batchVars, twinVars, clientVars>>

\* _on_analyze, file tab, several files: _analyze_multiple_files
AnalyzeMultipleFiles(paths) ==
    /\ Len(paths) > 1
    /\ window' = Proceed("batch_runs")
    /\ UNCHANGED <<extraVars, batchVars, twinVars, clientVars>>

WindowNext ==
    \/ \E connected \in BOOLEAN : TestConnection(connected)
    \/ \E c \in Contents : AnalyzeText(c)
    \/ \E c \in Contents : AnalyzeOneFile(c)
    \/ \E paths \in FileLists : AnalyzeMultipleFiles(paths)

InitWindow ==
    /\ BatchInit /\ TwinInit /\ ClientInit /\ ExtraInit
    /\ \E env \in Envs : window = NewWindow(env)

SpecWindow == InitWindow /\ [][WindowNext]_vars

(* ----------------------------------------------------------------------- *)
(* C18 (MainWindow)                                                         *)
(* ----------------------------------------------------------------------- *)
\* C18: after any sequence of connection tests and analyze requests, no
\* single-file analysis and no batch run issues an LLM call unless an
\* APIClient was constructed successfully before: a failed construction
\* leaves api_client unset and every analyze entry point refuses.
C18_NoRunWithoutClient ==
    /\ (window.analyze_calls > 0 \/ window.batch_runs > 0) => window.constructed
    /\ window.constructed <=> window.api_client = "client"
    /\ window.constructed => WindowConstruct(window.env) = "built"
    /\ WindowConstruct(window.env) # "built" =>
          /\ window.api_client = "None"
          /\ window.analyze_calls = 0 /\ window.batch_runs = 0

\* construction failed in a connection test, and analyze was requested since
C18_Witness ==
    /\ WindowConstruct(window.env) = "APIKeyMissingError"
    /\ ~window.analyze_enabled
    /\ window.refused > 1
    /\ window.api_client = "None"
    /\ window.analyze_calls = 0 /\ window.batch_runs = 0

(* ----------------------------------------------------------------------- *)
(* C21 .. C27 (batch run)                                                   *)
(* ----------------------------------------------------------------------- *)
\* the number of streams handed out by the client and not yet ended
OpenStreams == IF pc = "drain" THEN 1 ELSE 0

\* C21: at most one client call is outstanding at any time, and no step of
\* an item (cancel check, progress callback, load, prompt build, client
\* call) happens before the result of every earlier item was appended.
C21_OneItemAtATime ==
    /\ OpenStreams <= 1
    /\ pc = "drain" => (client_calls >= 1 /\ i \in client_items)
    /\ pc \in InItem \cup {"loop"} => Len(results) = i
    /\ \A k \in Indexes(load_log) : load_log[k] = k - 1
    /\ Len(load_log) = Len(results) + (IF pc \in InItem \ {"progress", "load"}
                                        THEN 1 ELSE 0)
    /\ Len(progress_calls) <= Len(results) + 1
    /\ Len(cancel_log) <= Len(results) + 1
    /\ \A k \in client_items : k <= Len(results) /\ k < Len(load_log)
    /\ client_calls > 0 => (pc \in InItem /\ i \in client_items)

\* the stream of the second item is open, the first item's result is in
C21_Witness ==
    /\ pc = "drain"
    /\ i = 1
    /\ Len(results) = 1
    /\ load_log = <<0, 1>>
    /\ client_items = {0, 1}

AttemptErrors == {"prompt_error", "client_error", "stream_error", "report_error"}
FailedAttempts(log) == Cardinality({k \in Indexes(log) : log[k] \in AttemptErrors})
Smaller(a, b) == IF a < b THEN a ELSE b

\* C22: in the retry loop a 1-second wait follows a failed attempt exactly
\* when another attempt remains: none before the first attempt, none after
\* a successful attempt, none after the third failure; so an item waits at
\* most twice, once per failed attempt that was followed by another attempt.
C22_WaitOnlyBeforeRetry ==
    /\ sleeps = Smaller(FailedAttempts(attempt_log), MAX_RETRIES - 1)
    /\ sleeps <= 2
    /\ FailedAttempts(attempt_log) = 0 => sleeps = 0
    /\ (AtItemEnd /\ result.success) => sleeps = result.retry_count
    /\ (AtItemEnd /\ Outcome(attempt_log) = "exhausted") =>
          (sleeps = MAX_RETRIES - 1 /\ FailedAttempts(attempt_log) = MAX_RETRIES)

\* three attempts failed and only the first two were followed by a wait
C22_Witness ==
    /\ AtItemEnd
    /\ ~result.success
    /\ FailedAttempts(attempt_log) = 3
    /\ sleeps = 2

AllReportErrors(log) == log # <<>> /\ \A k \in Indexes(log) : log[k] = "report_error"
ReachedClient == {"client_error", "stream_error", "report_error", "ok"}

\* C26: when the report generator raises after the stream was drained, the
\* attempt is a failed attempt: the drained text is dropped, retry_count
\* goes up and, while attempts remain, the client is called again; with a
\* report generator that always raises the client is called exactly 3
\* times and the item ends as a non-success with retry_count = 3.
C26_ReportErrorIsFailedAttempt ==
    /\ (AtItemEnd /\ AllReportErrors(attempt_log)) =>
          /\ Len(attempt_log) = 3
          /\ client_calls = 3 /\ report_calls = 3
          /\ ~result.success
          /\ result.retry_count = 3
          /\ result.improved_code = <<>>
    /\ (AtItemEnd /\ Last(attempt_log) = "report_error") =>
          Len(attempt_log) = MAX_RETRIES
    /\ pc \in {"attempt", "prompt", "call", "drain", "report"} =>
          retry_count = FailedAttempts(attempt_log)
    /\ client_calls =
          Cardinality({k \in Indexes(attempt_log) : attempt_log[k] \in ReachedClient})
            + (IF pc \in {"drain", "report"} THEN 1 ELSE 0)

\* every attempt drained a chunk and then lost it to the report generator
C26_Witness ==
    /\ AtItemEnd
    /\ attempt_log = <<"report_error", "report_error", "report_error">>
    /\ discarded
    /\ client_calls = 3
    /\ result.retry_count = 3
    /\ ~result.success

\* Every load, collaborator call, client call, chunk, wait and callback
\* returns or raises in finite time: a step that can be taken is taken.
SpecLive == Spec /\ WF_vars(Next)

\* C27: analyze_files terminates for every finite item list and returns a
\* summary, after at most 3 * len(items) calls of the client's analyze
\* method: at most 3 for each item, and only for items of the list.
C27_Terminates ==
    /\ [](client_calls <= 3)
    /\ [](\A k \in client_items : k < Len(file_paths))
    /\ [](Cardinality(client_items) <= Len(file_paths))
    /\ [](pc # "raised")
    /\ (pc = "loop") ~> (Returned /\ pc = "done")

\* a run over two items that called the client three times for the second
\* one has returned its summary
C27_Witness ==
    /\ Returned /\ pc = "done"
    /\ Len(file_paths) = 2
    /\ client_items = {0, 1}
    /\ outcomes = <<"success", "exhausted">>
    /\ summary.results[2].retry_count = 3

(* ----------------------------------------------------------------------- *)
(* C23, C28 (APIClient.analyze_code)                                        *)
(* ----------------------------------------------------------------------- *)
RECURSIVE SumOf(_)
SumOf(seq) == IF seq = <<>> THEN 0 ELSE seq[1] + SumOf(Tail(seq))

\* C23: the wait after failed 0-based attempt a, when a further attempt
\* remains, is exactly 2^a seconds, without jitter or cap; no wait follows the
\* final failed attempt, so a call whose n = max_retries attempts all fail
\* waits n - 1 times, 2^(n-1) - 1 seconds in total.
C23_ExponentialBackoff ==
    /\ call.pc # "idle" =>
          /\ \A k \in Indexes(waits) : waits[k] = Pow2(k - 1)
          /\ SumOf(waits) = Pow2(Len(waits)) - 1
          /\ Len(waits) \in {Len(transport), Len(transport) - 1}
          /\ \A k \in Indexes(waits) : transport[k] \in TransportErrors
    /\ (call.pc = "raised" /\ ~call.stream) =>
          /\ AllFailed(transport, call.max_retries)
          /\ Len(waits) = call.max_retries - 1
          /\ SumOf(waits) = Pow2(call.max_retries - 1) - 1

\* three attempts failed: waits of 1 and 2 seconds, 3 = 2^2 - 1 in total
C23_Witness ==
    /\ call.pc = "raised" /\ ~call.stream
    /\ call.max_retries = 3
    /\ Len(transport) = 3
    /\ waits = <<1, 2>>
    /\ SumOf(waits) = 3

\* C28: for every max_retries >= 0 a call of analyze_code either returns a
\* response (a text, or a chunk stream) or raises APIConnectionError; it
\* never comes back to the caller with neither a response nor an error.
C28_ResponseOrError ==
    /\ call.pc = "returned" =>
          /\ call.value \in {"text", "generator"}
          /\ call.value = "text" => (transport # <<>> /\ Last(transport) = "ok")
    /\ (call.pc = "raised" /\ ~call.stream) => call.error = "APIConnectionError"

(* ----------------------------------------------------------------------- *)
(* The retry loop of _analyze_single_file around the APIClient              *)
(* ----------------------------------------------------------------------- *)
\* def analyze_code(self, prompt, stream=True, max_retries: int = 3)
DefaultMaxRetries == 3

\* the requests of the call just observed, and those of them that failed
FailedIn(log) == Cardinality({k \in Indexes(log) : log[k] \in TransportErrors})

\* _analyze_single_file reaches its retry loop (the file loaded)
NestAnalyzeSingleFile ==
    /\ nest.pc = "idle"
    /\ client.status = "built" /\ call.pc = "idle"
    /\ nest' = [NoNest EXCEPT !.pc = "loop"]
    /\ UNCHANGED <<history, widget, batchVars, twinVars, clientVars, windowVars>>

\* for attempt in range(self.MAX_RETRIES):
\*     self.api_client.analyze_code(prompt=full_prompt, stream=True)
NestCall ==
    /\ nest.pc = "loop"
    /\ HasAttempt(nest.attempt)
    /\ AnalyzeCode(TRUE, DefaultMaxRetries)

\* for token in ...: the steps of the client while the batch attempt drains
NestDrain ==
    /\ nest.pc = "loop"
    /\ \/ ReturnStream
       \/ StreamOpens
       \/ \E e \in TransportErrors : StreamOpenFails(e)
       \/ StreamChunk
       \/ StreamEnd
       \/ \E e \in TransportErrors : StreamBreaks(e)

\* the drain ended: generate_report, then return (or its error is caught)
NestDrained(report_ok) ==
    /\ nest.pc = "loop"
    /\ call.pc = "drained"
    /\ nest' = IF report_ok
               THEN [nest EXCEPT !.pc = "return", !.outcome = "success",
                                 !.requests = @ + Len(transport),
                                 !.failed = @ + FailedIn(transport)]
               ELSE [nest EXCEPT !.pc = "caught", !.attempt = @ + 1,
                                 !.retry_count = @ + 1,
                                 !.requests = @ + Len(transport),
                                 !.failed = @ + FailedIn(transport)]
    /\ UNCHANGED <<history, widget, batchVars, twinVars, clientVars, windowVars>>

\* except APIClientError / except Exception: retry_count += 1
NestError ==
    /\ nest.pc = "loop"
    /\ call.pc = "raised"
    /\ CaughtInRetryLoop(IF call.error = "APIConnectionError"
                         THEN "APIConnectionError" ELSE "Exception")
    /\ nest' = [nest EXCEPT !.pc = "caught", !.attempt = @ + 1,
                            !.retry_count = @ + 1,
                            !.requests = @ + Len(transport),
                            !.failed = @ + FailedIn(transport)]
    /\ UNCHANGED <<history, widget, batchVars, twinVars, clientVars, windowVars>>

\* the generator and the exception of the attempt are dropped
NestCallOver == nest.pc \in {"caught", "return"} /\ CallOver

\* time.sleep(1) if an attempt is left, and round again
NestRetry ==
    /\ nest.pc = "caught" /\ call.pc = "idle"
    /\ nest' = [nest EXCEPT !.pc = "loop"]
    /\ UNCHANGED <<history, widget, batchVars, twinVars, clientVars, windowVars>>

\* the loop ran out: the failure result is returned
NestExhausted ==
    /\ nest.pc = "loop" /\ call.pc = "idle"
    /\ ~HasAttempt(nest.attempt)
    /\ nest' = [nest EXCEPT !.pc = "return", !.outcome = "exhausted"]
    /\ UNCHANGED <<history, widget, batchVars, twinVars, clientVars, windowVars>>

\* analyze_files appends the result and goes to the next item
NestReturn ==
    /\ nest.pc = "return" /\ call.pc = "idle"
    /\ nest' = NoNest
    /\ UNCHANGED <<history, widget, batchVars, twinVars, clientVars, windowVars>>

NestNext ==
    \/ \E p \in Providers, m \in ModelArgs, k \in Keys, sdk \in SdkSets :
          Construct(p, m, k, sdk)
    \/ NestAnalyzeSingleFile
    \/ NestCall
    \/ NestDrain
    \/ \E report_ok \in BOOLEAN : NestDrained(report_ok)
    \/ NestError
    \/ NestCallOver
    \/ NestRetry
    \/ NestExhausted
    \/ NestReturn

SpecNest == Init /\ [][NestNext]_vars

\* C24: the two retry layers compound in the batch path: the client's own
\* retry loop runs inside a batch attempt, so that one item causes more than
\* 3 transport requests (up to 3 x 3 = 9).  The execution the claim speaks of
\* is the one where the requests of the item keep failing: there every batch
\* attempt would hold a retry of the client, so an item that ran out of batch
\* attempts on failed requests alone has caused more than MAX_RETRIES requests.
C24_LayersCompound ==
    (/\ nest.pc = "return" /\ nest.outcome = "exhausted"
     /\ nest.failed = nest.requests /\ nest.requests > 0)
        => nest.requests > MAX_RETRIES

\* what holds instead: one request for each batch attempt, never more
NestOneRequestPerAttempt ==
    /\ nest.requests <= MAX_RETRIES
    /\ nest.requests <= nest.attempt + (IF nest.pc = "return" THEN 1 ELSE 0)
    /\ waits = <<>>

(* ----------------------------------------------------------------------- *)
(* ReportHistoryDB                                                          *)
(* ----------------------------------------------------------------------- *)
MaxReports == 3     \* add_report calls on one database
MaxStamp == 2       \* distinct timestamp values

\* if limit:  (None and 0 are both false)
LimitApplies(limit) == limit # <<>> /\ limit[1] # 0

\* ORDER BY timestamp DESC: every order of the rows that is descending in
\* timestamp (the order of rows with equal timestamps is not specified)
OrderByTimestampDesc(rows) ==
    {s \in [1..Cardinality(rows) -> rows] :
        /\ \A a, b \in DOMAIN s : a # b => s[a] # s[b]
        /\ \A a, b \in DOMAIN s : a < b => s[a].timestamp >= s[b].timestamp}

\* LIMIT ?
LimitTo(s, n) == IF n < Len(s) THEN SubSeq(s, 1, n) ELSE s

\* add_report(record): INSERT, the id is the next AUTOINCREMENT value
AddReport(ts) ==
    /\ history.last_id < MaxReports
    /\ history' = [NoHistory EXCEPT
                     !.rows = history.rows \cup
                              {[id |-> history.last_id + 1, timestamp |-> ts]},
                     !.last_id = history.last_id + 1]
    /\ UNCHANGED <<nest, widget, batchVars, twinVars, clientVars, windowVars>>

\* delete_report(report_id): DELETE ... WHERE id = ?
DeleteReport(report_id) ==
    /\ history' = [NoHistory EXCEPT
                     !.rows = {r \in history.rows : r.id # report_id},
                     !.last_id = history.last_id]
    /\ history' # history
    /\ UNCHANGED <<nest, widget, batchVars, twinVars, clientVars, windowVars>>

\* get_all_reports(limit)
GetAllReports(limit) ==
    /\ ~history.asked
    /\ \E s \in OrderByTimestampDesc(history.rows) :
          history' = [history EXCEPT
                        !.asked = TRUE, !.limit = limit,
                        !.returned = IF LimitApplies(limit)
                                     THEN LimitTo(s, limit[1]) ELSE s]
    /\ UNCHANGED <<nest, widget, batchVars, twinVars, clientVars, windowVars>>

HistoryNext ==
    \/ \E ts \in 1..MaxStamp : AddReport(ts)
    \/ \E report_id \in 1..MaxReports : DeleteReport(report_id)
    \/ \E limit \in {<<>>} \cup {<<n>> : n \in 0..MaxReports} : GetAllReports(limit)

SpecHistory == Init /\ [][HistoryNext]_vars

Returns(s) == {s[k] : k \in DOMAIN s}

\* C29: after any sequence of add_report and delete_report calls,
\* get_all_reports(limit) returns stored records, most recent first; without
\* a limit all of them, and with a limit n >= 0 at most n records, namely the
\* n most recent ones.
C29_MostRecentFirstLimited ==
    history.asked =>
        LET s == history.returned
        IN /\ Returns(s) \subseteq history.rows
           /\ \A a, b \in DOMAIN s : a # b => s[a] # s[b]
           /\ \A a, b \in DOMAIN s : a < b => s[a].timestamp >= s[b].timestamp
           /\ history.limit = <<>> => Returns(s) = history.rows
           /\ history.limit # <<>> =>
                 /\ Len(s) <= history.limit[1]
                 /\ Len(s) = Smaller(history.limit[1], Cardinality(history.rows))
                 /\ \A r \in history.rows \ Returns(s) :
                       \A k \in DOMAIN s : s[k].timestamp >= r.timestamp

(* ----------------------------------------------------------------------- *)
(* FileUploadWidget                                                         *)
(* ----------------------------------------------------------------------- *)
MaxPaths == 5       \* paths 1..MaxPaths name valid .cs files, 0 an invalid one

\* _validate_file: exists, ends with .cs, small enough, decodes as UTF-8
ValidateFile(file_path) == file_path # 0

\* _update_placeholder: only an empty selection touches the list widget
UpdatePlaceholder(w) ==
    IF Len(w.selected_files) = 0
    THEN [w EXCEPT !.file_list = <<Placeholder>>]
    ELSE w

\* the loop of _add_files: a duplicate or an invalid file is skipped, a valid
\* one is appended to selected_files and, by _add_list_item, to the list
RECURSIVE AddEach(_, _)
AddEach(w, paths) ==
    IF paths = <<>> THEN w
    ELSE LET file_path == Head(paths)
             skip == \/ \E k \in DOMAIN w.selected_files :
                            w.selected_files[k] = file_path
                     \/ ~ValidateFile(file_path)
         IN AddEach(IF skip THEN w
                    ELSE [selected_files |-> Append(w.selected_files, file_path),
                          file_list |-> Append(w.file_list, <<file_path>>)],
                    Tail(paths))

\* _add_files(file_paths), by the button, a drop or add_files_programmatically
WidgetAddFiles(paths) ==
    /\ widget' = UpdatePlaceholder(AddEach(widget, paths))
    /\ UNCHANGED <<nest, history, batchVars, twinVars, clientVars, windowVars>>

\* _on_remove_selected with the rows at the positions sel selected; the
\* placeholder row has no item flags and cannot be selected
WidgetRemoveSelected(sel) ==
    /\ sel # {}
    /\ sel \subseteq DOMAIN widget.file_list
    /\ \A k \in sel : widget.file_list[k] # Placeholder
    /\ LET gone == {widget.file_list[k][1] : k \in sel}
           notGonePath(x) == x \notin gone
           notGoneRow(r) == r = Placeholder \/ r[1] \notin gone
       IN widget' = UpdatePlaceholder(
              [selected_files |-> SelectSeq(widget.selected_files, notGonePath),
               file_list |-> SelectSeq(widget.file_list, notGoneRow)])
    /\ UNCHANGED <<nest, history, batchVars, twinVars, clientVars, windowVars>>

\* clear_files, and _on_clear_all answered Yes
WidgetClearFiles ==
    /\ widget' = UpdatePlaceholder([selected_files |-> <<>>, file_list |-> <<>>])
    /\ UNCHANGED <<nest, history, batchVars, twinVars, clientVars, windowVars>>

WidgetNext ==
    \/ \E a, b \in 0..MaxPaths : WidgetAddFiles(<<a>>) \/ WidgetAddFiles(<<a, b>>)
    \/ \E sel \in SUBSET (1..(MaxPaths + 1)) : WidgetRemoveSelected(sel)
    \/ WidgetClearFiles

SpecWidget == Init /\ [][WidgetNext]_vars

\* C30: after any sequence of add, remove-selected and clear operations the
\* list widget holds exactly one row per path of selected_files when
\* selected_files is non-empty, and exactly one placeholder row when it is
\* empty; the placeholder is never shown together with file rows.
C30_RowsMatchSelection ==
    IF widget.selected_files = <<>>
    THEN widget.file_list = <<Placeholder>>
    ELSE /\ Len(widget.file_list) = Len(widget.selected_files)
         /\ \A k \in DOMAIN widget.file_list : widget.file_list[k] # Placeholder
         /\ \A k \in DOMAIN widget.selected_files :
               Cardinality({j \in DOMAIN widget.file_list :
                               widget.file_list[j] = <<widget.selected_files[k]>>}) = 1
====
